---- MODULE Spec2Model ----
(***************************************************************************)
(* The intersection server of ltms/scripts/server.py: the session store,   *)
(* the priority clock (latest_reserve_time), the connect / notify /        *)
(* reserve service handlers, the conflict resolver (resolve_dangers) and   *)
(* the session reaper (clean_sessions_tmr).                                *)
(*                                                                         *)
(* Time is counted in tenths of a second (the resolution reserve rounds    *)
(* its window to).  connect_srv and notify_srv are one step each; the      *)
(* wall clock may move between their call of latest_reserve_time and       *)
(* their own reading of now.  reserve_srv is two steps, cut at the call    *)
(* of the external safety analysis, which runs without the sessions lock:  *)
(* other handlers, the reaper and the clock move while it runs.  The       *)
(* handler threads of rospy have no identity of their own, so the reserve  *)
(* calls that wait for the analysis are kept as a bag of their locals.     *)
(***************************************************************************)
EXTENDS Bags, FiniteSets, Integers, Sequences, TLC

----------------------------------------------------------------------------
(* Class constants of Server, in seconds as in the source. *)

TIME_HORIZON == 15
MAX_WINDOW_ENTRY == 2
SESSION_TIMEOUT == 30
TRANSIT_TIME == 15
COMPUTE_TIME == 10

(* TIME_STEP = 0.2 s, in tenths of a second. *)
TIME_STEP == 2

(* total_seconds() / timedelta(seconds=x): seconds to tenths of a second. *)
Sec(x) == 10 * x

_LOCATIONS == {"left", "top", "right", "bottom"}
ENTRY_LOCATIONS == _LOCATIONS \cup {"init"}
EXIT_LOCATIONS == _LOCATIONS
PERMITTED_ROUTES ==
    ({<<en, ex>> : en \in _LOCATIONS, ex \in _LOCATIONS} \ {<<l, l>> : l \in _LOCATIONS})
        \cup {<<"init", "left">>}

----------------------------------------------------------------------------
(* Bounds of the model. *)

NumThreads == 1
MaxTime == 2
MaxClock == 1
MaxEntry == 0

(* The user ids that show up in requests: two that agree on their first    *)
(* five characters, and two that do not.                                   *)
Ids == {"svea1", "svea12"}
RaceIds == {"svea1", "truck"}

(* Arrival times and reference times carried by requests. *)
Times == {Sec(COMPUTE_TIME) * (k + 1) : k \in 1..MaxTime}

(* The instants at which the wall clock is read: the start, and then every *)
(* other session timeout.                                                  *)
ClockInstants == {2 * Sec(SESSION_TIMEOUT) * k : k \in 0..MaxClock}

(* A time_ref string that datetime.fromisoformat rejects. *)
Malformed == -1

(* (entry, exit) pairs carried by reserve requests. *)
RouteRequests ==
    {<<"left", "right">>, <<"left", "left">>, <<"init", "top">>,
     <<"full", "left">>, <<"left", "init">>}

(* (earliest_entry, latest_entry) pairs carried by reserve requests, in   *)
(* tenths of a second.                                                     *)
WindowRequests ==
    {<<Sec(e), Sec(e) + w>> : e \in 0..MaxEntry, w \in {0, Sec(MAX_WINDOW_ENTRY)}}

(* The reserve requests of the users ids: every window on a permitted      *)
(* route at every time, every route with the widest window at the earliest *)
(* time, and requests whose time_ref does not parse.                       *)
GoodRequests(ids) ==
    [name : ids, time_ref : Times, route : {<<"left", "right">>}, window : WindowRequests]

ReserveRequests(ids) ==
    GoodRequests(ids)
    \cup [name : ids, time_ref : {Sec(COMPUTE_TIME) * 2}, route : RouteRequests,
          window : {<<0, Sec(MAX_WINDOW_ENTRY)>>}]
    \cup [name : ids, time_ref : {Malformed}, route : {<<"left", "right">>, <<"left", "left">>},
          window : {<<0, Sec(MAX_WINDOW_ENTRY)>>}]

(* The requests the reserve service is called with. *)
Requests == ReserveRequests(Ids)

(* Those of them that get past the parsing and the checks of the route. *)
RoutedRequests == GoodRequests(Ids)

(* What the external safety analysis may hand back in `result`. *)
AnalysisResults ==
    { [earliest_entry |-> 0, latest_entry |-> 20, earliest_exit |-> 150, latest_exit |-> 170],
      [earliest_entry |-> 10, latest_entry |-> 10, earliest_exit |-> 160, latest_exit |-> 160] }

----------------------------------------------------------------------------
(* Helpers. *)

Max(a, b) == IF a >= b THEN a ELSE b
Min(a, b) == IF a <= b THEN a ELSE b

(* reservation={} of a fresh session *)
NoReservation == [k \in {} |-> 0]

(* _id[:5] *)
Prefix5(id) == SubSeq(id, 1, Min(5, Len(id)))

(* round(e % 0.2, 1) for e = k/10 in IEEE double arithmetic, in tenths of *)
(* a second, k = 0..150.                                                   *)
FloatModTimeStep ==
    << 0, 1, 0, 1, 0, 1, 2, 1, 0, 1, 2, 1, 2, 1, 2, 1, 0, 1, 2, 1, 2, 1, 0, 1, 2,
       1, 2, 1, 2, 1, 2, 1, 0, 1, 2, 1, 2, 1, 2, 1, 2, 1, 2, 1, 0, 1, 2, 1, 2, 1,
       2, 1, 2, 1, 0, 1, 2, 1, 2, 1, 2, 1, 2, 1, 0, 1, 2, 1, 2, 1, 2, 1, 2, 1, 2,
       1, 2, 1, 2, 1, 2, 1, 2, 1, 2, 1, 2, 1, 0, 1, 2, 1, 2, 1, 2, 1, 2, 1, 0, 1,
       2, 1, 2, 1, 2, 1, 2, 1, 0, 1, 2, 1, 2, 1, 2, 1, 2, 1, 0, 1, 2, 1, 2, 1, 2,
       1, 2, 1, 0, 1, 2, 1, 2, 1, 2, 1, 2, 1, 2, 1, 2, 1, 2, 1, 2, 1, 2, 1, 2, 1,
       2 >>

(* offset = round(floor(earliest_entry) + (earliest_entry % TIME_STEP), 1) *)
Offset(earliest_entry) ==
    Sec(earliest_entry \div 10) + FloatModTimeStep[earliest_entry + 1]

----------------------------------------------------------------------------
(* The session store and the priority clock. *)

VARIABLES sessions, now, calls, resp

vars == <<sessions, now, calls, resp>>

(* Server.sessions_add *)
sessions_add(S, sid, sess) ==
    [k \in DOMAIN S \cup {sid} |-> IF k = sid THEN sess ELSE S[k]]

(* add_reservation making a session for an id that is not in the store *)
add_reservationUpsert(S, sid, reservation) ==
    IF sid \in DOMAIN S
    THEN [S EXCEPT ![sid].reservation = reservation, ![sid].reserved = TRUE]
    ELSE sessions_add(S, sid, [latest_reserve_time |-> 0,
                               arrival_time |-> reservation.time_ref,
                               session_timeout |-> reservation.time_ref
                                                     + Sec(SESSION_TIMEOUT),
                               reserved |-> TRUE,
                               reservation |-> reservation])

(* Server.add_reservation *)
add_reservation(S, sid, reservation) ==
    IF sid \in DOMAIN S
    THEN [S EXCEPT ![sid].reservation = reservation, ![sid].reserved = TRUE]
    ELSE S

(* Server.get_reservations *)
get_reservations(S) == {sid \in DOMAIN S : S[sid].reserved}

(* the early return of latest_reserve_time: another session is reserved    *)
(* and ego arrives before it                                               *)
PriorityViolation(S, ego_sid, ego_arrival_time) ==
    \E oth \in DOMAIN S \ {ego_sid} :
        S[oth].reserved /\ 0 < S[oth].arrival_time - ego_arrival_time

(* num_unreserved_hpv leaving out a session that arrives together with ego *)
UnreservedHpvStrict(S, ego_sid, ego_arrival_time) ==
    {oth \in DOMAIN S \ {ego_sid} :
        LET ego_before_other == S[oth].arrival_time - ego_arrival_time
        IN  /\ ~S[oth].reserved
            /\ ego_before_other < 0
            /\ ~(Sec(TIME_HORIZON) < -ego_before_other)}

(* num_unreserved_hpv leaving out a session exactly TIME_HORIZON ahead *)
UnreservedHpvInside(S, ego_sid, ego_arrival_time) ==
    {oth \in DOMAIN S \ {ego_sid} :
        LET ego_before_other == S[oth].arrival_time - ego_arrival_time
        IN  /\ ~S[oth].reserved
            /\ ~(0 < ego_before_other)
            /\ ~(Sec(TIME_HORIZON) <= -ego_before_other)}

(* the sessions latest_reserve_time counts in num_unreserved_hpv *)
UnreservedHpv(S, ego_sid, ego_arrival_time) ==
    {oth \in DOMAIN S \ {ego_sid} :
        LET ego_before_other == S[oth].arrival_time - ego_arrival_time
        IN  /\ ~S[oth].reserved
            /\ ~(0 < ego_before_other)
            /\ ~(Sec(TIME_HORIZON) < -ego_before_other)}

(* latest_reserve_time without the heuristic extra slot of line 360 *)
latest_reserve_timeNoExtra(S, ego_sid, ego_arrival_time, clock) ==
    IF PriorityViolation(S, ego_sid, ego_arrival_time)
    THEN clock
    ELSE LET num_unreserved_hpv == Cardinality(UnreservedHpv(S, ego_sid, ego_arrival_time))
             time_needed == COMPUTE_TIME * (num_unreserved_hpv + 1)
         IN  ego_arrival_time - Sec(time_needed)

(* Server.latest_reserve_time, with `clock` the value of datetime.now()    *)
latest_reserve_time(S, ego_sid, ego_arrival_time, clock) ==
    IF PriorityViolation(S, ego_sid, ego_arrival_time)
    THEN clock
    ELSE LET num_unreserved_hpv == Cardinality(UnreservedHpv(S, ego_sid, ego_arrival_time))
             time_needed == COMPUTE_TIME * (num_unreserved_hpv + 1) + COMPUTE_TIME
         IN  ego_arrival_time - Sec(time_needed)

(* resolve_dangers keeping the windows that only touch *)
resolve_dangersTouching(S, time_ref) ==
    {sid \in get_reservations(S) :
        LET earliest_overlap == Max(time_ref, S[sid].reservation.time_ref)
            latest_overlap == Min(time_ref + Sec(TIME_HORIZON),
                                  S[sid].reservation.time_ref + Sec(TIME_HORIZON))
        IN  0 <= latest_overlap - earliest_overlap}

(* Server.resolve_dangers: the reserved sessions whose window overlaps the *)
(* window that starts at time_ref                                          *)
resolve_dangers(S, time_ref) ==
    {sid \in get_reservations(S) :
        LET earliest_overlap == Max(time_ref, S[sid].reservation.time_ref)
            latest_overlap == Min(time_ref + Sec(TIME_HORIZON),
                                  S[sid].reservation.time_ref + Sec(TIME_HORIZON))
        IN  0 < latest_overlap - earliest_overlap}

(* the filter reserve applies to the dangers: _id[:5] != sid[:5] *)
FilterDangers(dangers, sid) ==
    {id \in dangers : Prefix5(id) # Prefix5(sid)}

----------------------------------------------------------------------------
(* Handler threads. *)

(* resp of service_wrp: the response of the call that is returning, and    *)
(* NoResp once the wrapper has handed it to the caller                     *)
NoResp ==
    [op |-> "none", transit_time |-> 0, success |-> FALSE, reason |-> ""]

Init ==
    /\ sessions = [k \in {} |-> 0]
    /\ now = 0
    /\ calls = EmptyBag
    /\ resp = NoResp

(* a handler thread is left to take one more reserve call, of n threads *)
Free(n) == BagCardinality(calls) < n

(* the locals of the reserve calls that wait for run_analysis *)
Waiting == BagToSet(calls)

(* the instants the second reading of the clock in a handler may give *)
LaterReadings == {c \in ClockInstants : c >= now}

(* the deadline check of the three handlers: latest_reserve_time < now *)
Late(lrt, clock) == lrt < clock

(* the session connect_srv stores *)
NewSession(lrt, arrival_time) ==
    [latest_reserve_time |-> lrt,
     arrival_time |-> arrival_time,
     session_timeout |-> arrival_time + Sec(SESSION_TIMEOUT),
     reserved |-> FALSE,
     reservation |-> NoReservation]

(* connect_srv; clock is its own reading of now *)
connect_srv(usr_id, arrival_time, clock) ==
    /\ LET lrt == latest_reserve_time(sessions, usr_id, arrival_time, now)
           r == [NoResp EXCEPT !.op = "connect"]
       IN  IF Late(lrt, clock)
           THEN /\ resp' = [r EXCEPT !.transit_time = -1000]
                /\ UNCHANGED sessions
           ELSE /\ sessions' = sessions_add(sessions, usr_id, NewSession(lrt, arrival_time))
                /\ resp' = [r EXCEPT !.transit_time = TRANSIT_TIME, !.success = TRUE]
    /\ now' = clock
    /\ UNCHANGED calls

(* notify_srv rebuilding the session as connect_srv does *)
NotifySessionFresh(sess, lrt, arrival_time) ==
    [latest_reserve_time |-> lrt,
     arrival_time |-> arrival_time,
     session_timeout |-> arrival_time + Sec(SESSION_TIMEOUT),
     reserved |-> FALSE,
     reservation |-> NoReservation]

(* notify_srv writing the three fields without looking at the flag *)
NotifySessionAlways(sess, lrt, arrival_time) ==
    [sess EXCEPT !.latest_reserve_time = lrt,
                 !.arrival_time = arrival_time,
                 !.session_timeout = arrival_time + Sec(SESSION_TIMEOUT)]

(* notify_srv leaving the session's timeout at its old value *)
NotifySessionStaleTimeout(sess, lrt, arrival_time) ==
    IF sess.reserved
    THEN sess
    ELSE [sess EXCEPT !.latest_reserve_time = lrt,
                      !.arrival_time = arrival_time]

(* the body of notify_srv's loop over select_session: what becomes of the  *)
(* session                                                                 *)
NotifySession(sess, lrt, arrival_time) ==
    IF sess.reserved
    THEN sess
    ELSE [sess EXCEPT !.latest_reserve_time = lrt,
                      !.arrival_time = arrival_time,
                      !.session_timeout = arrival_time + Sec(SESSION_TIMEOUT)]

(* notify_srv; clock is its own reading of now *)
notify_srv(usr_id, arrival_time, clock) ==
    /\ LET lrt == latest_reserve_time(sessions, usr_id, arrival_time, now)
           r == [NoResp EXCEPT !.op = "notify"]
       IN  IF Late(lrt, clock)
           THEN /\ resp' = [r EXCEPT !.transit_time = -1000]
                /\ UNCHANGED sessions
           ELSE IF usr_id \in DOMAIN sessions
           THEN /\ sessions' = [sessions EXCEPT
                                   ![usr_id] = NotifySession(sessions[usr_id], lrt, arrival_time)]
                /\ resp' = IF sessions[usr_id].reserved
                           THEN [r EXCEPT !.transit_time = -2000]
                           ELSE [r EXCEPT !.transit_time = TRANSIT_TIME, !.success = TRUE]
           ELSE /\ resp' = [r EXCEPT !.transit_time = -3000]
                /\ UNCHANGED sessions
    /\ now' = clock
    /\ UNCHANGED calls

(* reserve_srv without its look-up in PERMITTED_ROUTES *)
RouteReasonNoTable(entry, exit) ==
    IF entry \notin ENTRY_LOCATIONS THEN "Illegal entry region"
    ELSE IF exit \notin EXIT_LOCATIONS THEN "Illegal exit region"
    ELSE ""

(* the reason reserve_srv gives for turning a route down, "" for a route   *)
(* it lets through                                                         *)
RouteReason(entry, exit) ==
    IF entry \notin ENTRY_LOCATIONS THEN "Illegal entry region"
    ELSE IF exit \notin EXIT_LOCATIONS THEN "Illegal exit region"
    ELSE IF <<entry, exit>> \notin PERMITTED_ROUTES THEN "Illegal route through region"
    ELSE ""

(* reserve_srv returns before it reads the clock *)
EarlyReturn(req) ==
    req.time_ref = Malformed \/ RouteReason(req.route[1], req.route[2]) # ""

(* reserve's try block without its assertion on max_window_entry *)
WindowReasonNoWidth(earliest_entry, latest_entry) ==
    IF ~(0 <= earliest_entry /\ earliest_entry <= latest_entry
                /\ latest_entry <= Sec(TIME_HORIZON))
    THEN "Invalid window offsetting"
    ELSE ""

(* the first part of reserve's try block, after clamping and alignment:    *)
(* the two assertions on the window; "" when both hold                     *)
WindowReason(earliest_entry, latest_entry) ==
    IF ~(0 <= earliest_entry /\ earliest_entry <= latest_entry
                /\ latest_entry <= Sec(TIME_HORIZON))
    THEN "Invalid window offsetting"
    ELSE IF Min(latest_entry - earliest_entry, Sec(MAX_WINDOW_ENTRY)) = 0
    THEN "Invalid entry window requested"
    ELSE ""

(* the reason reserve_srv and reserve give for returning before            *)
(* run_analysis is called, "" when the call goes on; clock is              *)
(* reserve_srv's own reading of now                                        *)
RejectReason(S, req, clock1, clock) ==
    LET earliest_entry0 == Max(req.window[1], 0)
        latest_entry0 == Min(req.window[2], Sec(TIME_HORIZON))
        offset == Offset(earliest_entry0)
    IN  IF req.time_ref = Malformed THEN "Malformed ISO time"
        ELSE IF RouteReason(req.route[1], req.route[2]) # ""
        THEN RouteReason(req.route[1], req.route[2])
        ELSE IF Late(latest_reserve_time(S, req.name, req.time_ref, clock1), clock)
        THEN "Reservation late"
        ELSE WindowReason(earliest_entry0 - offset, latest_entry0 - offset)

(* the locals of reserve at its call of run_analysis; known is the        *)
(* outcome of reserve_srv's test of req.name against the store             *)
Locals(S, req) ==
    LET offset == Offset(Max(req.window[1], 0))
        time_ref == req.time_ref + offset
    IN  [usr |-> req.name,
         time_ref |-> time_ref,
         known |-> req.name \in DOMAIN S,
         entry |-> req.route[1],
         exit |-> req.route[2],
         earliest_entry |-> Max(req.window[1], 0) - offset,
         latest_entry |-> Min(req.window[2], Sec(TIME_HORIZON)) - offset,
         dangers |-> FilterDangers(resolve_dangers(S, time_ref), req.name)]

(* reserve_srv and reserve up to the call of run_analysis *)
reserve_srv(req, clock) ==
    /\ now' = clock
    /\ UNCHANGED sessions
    /\ LET r == [NoResp EXCEPT !.op = "reserve"]
           reason == RejectReason(sessions, req, now, clock)
       IN  IF reason # ""
           THEN /\ resp' = [r EXCEPT !.reason = reason]
                /\ UNCHANGED calls
           ELSE /\ calls' = calls (+) SetToBag({Locals(sessions, req)})
                /\ UNCHANGED resp

(* reserve computing the exit bounds from its entry bounds, as the reserve *)
(* of fake_server.py does                                                  *)
ReservationTransitExits(l, result) ==
    [name |-> l.usr,
     time_ref |-> l.time_ref,
     entry |-> l.entry,
     exit |-> l.exit,
     earliest_entry |-> Max(l.earliest_entry, result.earliest_entry),
     latest_entry |-> Min(l.latest_entry, result.latest_entry),
     earliest_exit |-> Max(l.earliest_entry, result.earliest_entry) + Sec(TRANSIT_TIME),
     latest_exit |-> Min(l.latest_entry, result.latest_entry) + Sec(TRANSIT_TIME),
     analysis |-> [dangers |-> l.dangers]]

(* reserve taking the entry bounds of the analysis as they come *)
ReservationNoClamp(l, result) ==
    [name |-> l.usr,
     time_ref |-> l.time_ref,
     entry |-> l.entry,
     exit |-> l.exit,
     earliest_entry |-> result.earliest_entry,
     latest_entry |-> result.latest_entry,
     earliest_exit |-> result.earliest_exit,
     latest_exit |-> result.latest_exit,
     analysis |-> [dangers |-> l.dangers]]

(* the reservation reserve hands to add_reservation, given the locals of   *)
(* the call and the result of run_analysis                                 *)
Reservation(l, result) ==
    [name |-> l.usr,
     time_ref |-> l.time_ref,
     entry |-> l.entry,
     exit |-> l.exit,
     earliest_entry |-> Max(l.earliest_entry, result.earliest_entry),
     latest_entry |-> Min(l.latest_entry, result.latest_entry),
     earliest_exit |-> result.earliest_exit,
     latest_exit |-> result.latest_exit,
     analysis |-> [dangers |-> l.dangers]]

(* the last assertion of reserve's try block letting an empty window by *)
WindowLeftOrEmpty(reservation) == 0 <= reservation.latest_entry - reservation.earliest_entry

(* the last assertion of reserve's try block *)
WindowLeft(reservation) == 0 < reservation.latest_entry - reservation.earliest_entry

(* reserve storing the reservation before its last assertion *)
ReserveStoreEager(S, sid, reservation) == add_reservation(S, sid, reservation)

(* the except / else of reserve's try block: the store after the call *)
ReserveStore(S, sid, reservation) ==
    IF WindowLeft(reservation) THEN add_reservation(S, sid, reservation) ELSE S

(* reserve from the return of run_analysis to the return of reserve_srv,   *)
(* for the call with locals l                                              *)
reserve(l, result) ==
    /\ BagIn(l, calls)
    /\ LET r == [NoResp EXCEPT !.op = "reserve"]
           reservation == Reservation(l, result)
       IN  /\ sessions' = ReserveStore(sessions, l.usr, reservation)
           /\ resp' = IF WindowLeft(reservation)
                      THEN [r EXCEPT !.success = TRUE]
                      ELSE [r EXCEPT !.reason = "No time window to enter region"]
    /\ calls' = calls (-) SetToBag({l})
    /\ UNCHANGED now

(* clean_sessions_tmr comparing the arrival time with now *)
SurvivorsByArrival(S, clock) ==
    LET now_s == (clock \div 10) * 10
    IN  {sid \in DOMAIN S : ~(S[sid].arrival_time < now_s)}

(* clean_sessions_tmr sparing the sessions that are reserved *)
SurvivorsOrReserved(S, clock) ==
    LET now_s == (clock \div 10) * 10
    IN  {sid \in DOMAIN S : S[sid].reserved \/ ~(S[sid].session_timeout < now_s)}

(* the sessions clean_sessions_tmr leaves in the store *)
Survivors(S, clock) ==
    LET now_s == (clock \div 10) * 10
    IN  {sid \in DOMAIN S : ~(S[sid].session_timeout < now_s)}

(* one run of clean_sessions_tmr *)
clean_sessions_tmr ==
    /\ resp = NoResp
    /\ sessions' = [sid \in Survivors(sessions, now) |-> sessions[sid]]
    /\ UNCHANGED <<now, calls, resp>>

(* the wall clock moves on to a later instant *)
Tick ==
    /\ resp = NoResp
    /\ \E c \in ClockInstants : c > now /\ now' = c
    /\ UNCHANGED <<sessions, calls, resp>>

(* the wrapper of a handler returns resp to the caller; the steps below    *)
(* are taken once it has                                                   *)
service_wrp ==
    /\ resp # NoResp
    /\ resp' = NoResp
    /\ UNCHANGED <<sessions, now, calls>>

(* the steps of the server, over the requests of Ids *)
ConnectStep ==
    /\ resp = NoResp
    /\ \E u \in Ids, a \in Times, c \in LaterReadings : connect_srv(u, a, c)

NotifyStep ==
    /\ resp = NoResp
    /\ \E u \in Ids, a \in Times, c \in LaterReadings : notify_srv(u, a, c)

ReserveSrvStep ==
    /\ resp = NoResp
    /\ Free(NumThreads)
    /\ \E req \in Requests :
          \E c \in IF EarlyReturn(req) THEN {now} ELSE LaterReadings :
              reserve_srv(req, c)

ReserveStep ==
    /\ resp = NoResp
    /\ \E l \in Waiting, result \in AnalysisResults : reserve(l, result)

Next ==
    \/ ConnectStep
    \/ NotifyStep
    \/ ReserveSrvStep
    \/ ReserveStep
    \/ service_wrp
    \/ clean_sessions_tmr
    \/ Tick

Spec == Init /\ [][Next]_vars

(* The requests of the two users of RaceIds. *)
RaceRequests == GoodRequests(RaceIds)

(* Two users whose ids differ in their first five characters and who       *)
(* announce the same arrival time, with one more reserve call in flight.   *)
RaceArrival == Sec(COMPUTE_TIME) * (MaxTime + 1)

RaceConnectStep ==
    /\ resp = NoResp
    /\ \E u \in RaceIds, c \in LaterReadings : connect_srv(u, RaceArrival, c)

RaceReserveSrvStep ==
    /\ resp = NoResp
    /\ Free(NumThreads + 1)
    /\ \E req \in RaceRequests, c \in LaterReadings : reserve_srv(req, c)

NextRace ==
    \/ RaceConnectStep
    \/ RaceReserveSrvStep
    \/ ReserveStep
    \/ service_wrp
    \/ clean_sessions_tmr
    \/ Tick

SpecRace == Init /\ [][NextRace]_vars

(* Reserve requests of one of the users of RaceIds, for its arrival time,  *)
(* with entry windows that start before 0, end after TIME_HORIZON, are off *)
(* the TIME_STEP grid, are narrower than MAX_WINDOW_ENTRY, are empty or    *)
(* end before they start; in tenths of a second.                           *)
WideWindows ==
    {<<0, 20>>, <<0, 10>>, <<-10, 20>>, <<5, 25>>, <<10, 30>>,
     <<0, Sec(TIME_HORIZON) + 10>>, <<0, 0>>, <<4, 4>>, <<4, 2>>}

WideRequests ==
    [name : {"svea1"}, time_ref : {RaceArrival}, route : {<<"left", "right">>},
     window : WideWindows]

(* Results of run_analysis, which reserve reads without looking at them:   *)
(* bounds inside and outside [0, TIME_HORIZON], exits TRANSIT_TIME after   *)
(* the entries or not, and bounds in the wrong order.                      *)
WideResults ==
    { [earliest_entry |-> 0, latest_entry |-> 20, earliest_exit |-> 150, latest_exit |-> 170],
      [earliest_entry |-> 10, latest_entry |-> 15, earliest_exit |-> 160, latest_exit |-> 165],
      [earliest_entry |-> -10, latest_entry |-> 200, earliest_exit |-> 140, latest_exit |-> 350],
      [earliest_entry |-> 0, latest_entry |-> 20, earliest_exit |-> 160, latest_exit |-> 150],
      [earliest_entry |-> 20, latest_entry |-> 0, earliest_exit |-> 170, latest_exit |-> 150],
      [earliest_entry |-> 160, latest_entry |-> 170, earliest_exit |-> 310, latest_exit |-> 320] }

WideReserveSrvStep ==
    /\ resp = NoResp
    /\ Free(NumThreads)
    /\ \E req \in WideRequests, c \in LaterReadings : reserve_srv(req, c)

WideReserveStep ==
    /\ resp = NoResp
    /\ \E l \in Waiting, result \in WideResults : reserve(l, result)

NextWindow ==
    \/ RaceConnectStep
    \/ WideReserveSrvStep
    \/ WideReserveStep
    \/ service_wrp

SpecWindow == Init /\ [][NextWindow]_vars

(* The server with its sessions kept for good, every reserve request      *)
(* asking for the widest window and the reserve calls coming one after the *)
(* other: the stores the priority clock is asked about.                    *)
ClockRequests ==
    [name : Ids, time_ref : Times, route : {<<"left", "right">>},
     window : {<<0, Sec(MAX_WINDOW_ENTRY)>>}]

ClockReserveSrvStep ==
    /\ resp = NoResp
    /\ Free(1)
    /\ \E req \in ClockRequests, c \in LaterReadings : reserve_srv(req, c)

NextClock ==
    \/ ConnectStep
    \/ NotifyStep
    \/ ClockReserveSrvStep
    \/ ReserveStep
    \/ service_wrp

SpecClock == Init /\ [][NextClock]_vars

(* The instants at which the timer of clean_sessions_tmr may fire around   *)
(* the timeout of a session: on it, a tenth of a second after it and a     *)
(* whole second after it.                                                  *)
ReaperInstants ==
    {t + Sec(SESSION_TIMEOUT) + d : t \in Times, d \in {0, 1, Sec(1)}}

ReaperTick ==
    /\ resp = NoResp
    /\ \E c \in ReaperInstants : c > now /\ now' = c
    /\ UNCHANGED <<sessions, calls, resp>>

NextReaper ==
    \/ ConnectStep
    \/ service_wrp
    \/ clean_sessions_tmr
    \/ ReaperTick

SpecReaper == Init /\ [][NextReaper]_vars

----------------------------------------------------------------------------
(* The server with its sessions_lock: the handlers and the timer run in    *)
(* threads of their own, and a thread stops wherever it has to take the    *)
(* lock. `calls` holds one record for each thread that is under way, with  *)
(* `held` the number of times the thread has taken the RLock.              *)

(* a lock that lets every thread in *)
AcquirableAlways(T) == TRUE

(* RLock.acquire: no thread of T holds the lock *)
Acquirable(T) == \A d \in T : d.held = 0

(* the threads that hold the lock *)
Holders == {c \in Waiting : c.held > 0}

(* one thread moves on from c to d, or ends *)
Become(c, d) == calls' = (calls (-) SetToBag({c})) (+) SetToBag({d})

(* a thread returns and the generator of select_session it was looping     *)
(* over stays suspended at its yield, inside the with block                *)
ReturnSuspended(c) ==
    calls' = (calls (-) SetToBag({c}))
               (+) (IF c.held > 0
                    THEN SetToBag({[op |-> "select_session", pc |-> "yield",
                                    held |-> c.held]})
                    ELSE EmptyBag)

Return(c) == calls' = calls (-) SetToBag({c})

(* notify_srv up to its loop over select_session *)
notify_srv_enter(usr_id, arrival_time) ==
    /\ Acquirable(Waiting)
    /\ UNCHANGED <<sessions, now>>
    /\ LET lrt == latest_reserve_time(sessions, usr_id, arrival_time, now)
       IN  IF Late(lrt, now)
           THEN /\ resp' = [NoResp EXCEPT !.op = "notify", !.transit_time = -1000]
                /\ UNCHANGED calls
           ELSE /\ calls' = calls (+) SetToBag({[op |-> "notify_srv", pc |-> "select_session",
                                                  held |-> 0, usr |-> usr_id,
                                                  arrival_time |-> arrival_time,
                                                  lrt |-> lrt]})
                /\ UNCHANGED resp

(* select_session called by notify_srv: it takes the lock and yields the   *)
(* session, or finds none and lets the for-else answer                     *)
notify_srv_select_session(c) ==
    /\ c.op = "notify_srv" /\ c.pc = "select_session"
    /\ Acquirable(Waiting \ {c})
    /\ UNCHANGED <<sessions, now>>
    /\ IF c.usr \in DOMAIN sessions
       THEN /\ Become(c, [c EXCEPT !.pc = "for", !.held = 1])
            /\ UNCHANGED resp
       ELSE /\ Return(c)
            /\ resp' = [NoResp EXCEPT !.op = "notify", !.transit_time = -3000]

(* the body of notify_srv's loop, on the session select_session yielded;   *)
(* leaving the loop closes the generator, which gives the lock back        *)
notify_srv_for(c) ==
    /\ c.op = "notify_srv" /\ c.pc = "for"
    /\ UNCHANGED now
    /\ Return(c)
    /\ IF c.usr \in DOMAIN sessions
       THEN /\ sessions' = [sessions EXCEPT
                               ![c.usr] = NotifySession(sessions[c.usr], c.lrt, c.arrival_time)]
            /\ resp' = IF sessions[c.usr].reserved
                       THEN [NoResp EXCEPT !.op = "notify", !.transit_time = -2000]
                       ELSE [NoResp EXCEPT !.op = "notify", !.transit_time = TRANSIT_TIME,
                                           !.success = TRUE]
       ELSE /\ UNCHANGED sessions
            /\ resp' = [NoResp EXCEPT !.op = "notify", !.transit_time = TRANSIT_TIME,
                                      !.success = TRUE]

(* clean_sessions_tmr reads the clock and takes the lock *)
clean_sessions_tmr_enter ==
    /\ \A d \in Waiting : d.op # "clean_sessions_tmr"
    /\ Acquirable(Waiting)
    /\ calls' = calls (+) SetToBag({[op |-> "clean_sessions_tmr", pc |-> "for",
                                      held |-> 1, clock |-> now]})
    /\ UNCHANGED <<sessions, now, resp>>

(* the loop of clean_sessions_tmr, and the end of its with block *)
clean_sessions_tmr_for(c) ==
    /\ c.op = "clean_sessions_tmr" /\ c.pc = "for"
    /\ sessions' = [sid \in Survivors(sessions, c.clock) |-> sessions[sid]]
    /\ Return(c)
    /\ UNCHANGED <<now, resp>>

(* a reserve call that goes into run_analysis with the lock of             *)
(* iter_sessions still held                                                *)
ReserveThreadHolding(l) ==
    [op |-> "reserve", pc |-> "run_analysis", held |-> 1, l |-> l]

(* the thread of a reserve call at its call of run_analysis; the lock was  *)
(* given back when get_reservations had run through iter_sessions          *)
ReserveThread(l) ==
    [op |-> "reserve", pc |-> "run_analysis", held |-> 0, l |-> l]

(* reserve_srv and reserve up to the call of run_analysis *)
reserve_enter(req) ==
    /\ Acquirable(Waiting)
    /\ UNCHANGED <<sessions, now>>
    /\ LET reason == RejectReason(sessions, req, now, now)
       IN  IF reason # ""
           THEN /\ resp' = [NoResp EXCEPT !.op = "reserve", !.reason = reason]
                /\ UNCHANGED calls
           ELSE /\ calls' = calls (+) SetToBag({ReserveThread(Locals(sessions, req))})
                /\ UNCHANGED resp

(* reserve from the return of run_analysis into add_reservation, which     *)
(* takes the lock and calls select_session, which takes it again           *)
reserve_add_reservation(c, result) ==
    /\ c.op = "reserve" /\ c.pc = "run_analysis"
    /\ UNCHANGED <<sessions, now>>
    /\ LET reservation == Reservation(c.l, result)
       IN  IF ~WindowLeft(reservation)
           THEN /\ Return(c)
                /\ resp' = [NoResp EXCEPT !.op = "reserve",
                                          !.reason = "No time window to enter region"]
           ELSE /\ Acquirable(Waiting \ {c})
                /\ IF c.l.usr \in DOMAIN sessions
                   THEN /\ Become(c, [op |-> "reserve", pc |-> "for", held |-> c.held + 2,
                                       l |-> c.l, reservation |-> reservation,
                                       line |-> 268])
                        /\ UNCHANGED resp
                   ELSE /\ Return(c)
                        /\ resp' = [NoResp EXCEPT !.op = "reserve", !.success = TRUE]

(* the first statement of add_reservation's loop with the lock given back  *)
(* after it                                                                *)
add_reservation_forUnlocked(c) ==
    /\ c.op = "reserve" /\ c.pc = "for" /\ c.line = 268
    /\ sessions' = [sessions EXCEPT ![c.l.usr].reservation = c.reservation]
    /\ Become(c, [c EXCEPT !.line = 269, !.held = 0])
    /\ UNCHANGED <<now, resp>>

(* the first statement of the body of add_reservation's loop:              *)
(* sess['reservation'] = kwds                                              *)
add_reservation_for(c) ==
    /\ c.op = "reserve" /\ c.pc = "for" /\ c.line = 268
    /\ sessions' = [sessions EXCEPT ![c.l.usr].reservation = c.reservation]
    /\ Become(c, [c EXCEPT !.line = 269])
    /\ UNCHANGED <<now, resp>>

(* the second statement, sess['reserved'] = True, the end of the with      *)
(* blocks and the rest of reserve                                          *)
add_reservation_reserved(c) ==
    /\ c.op = "reserve" /\ c.pc = "for" /\ c.line = 269
    /\ sessions' = [sessions EXCEPT ![c.l.usr].reserved = TRUE]
    /\ resp' = [NoResp EXCEPT !.op = "reserve", !.success = TRUE]
    /\ Return(c)
    /\ UNCHANGED now

(* connect_srv: latest_reserve_time and sessions_add both take the lock *)
LockConnectStep ==
    /\ resp = NoResp
    /\ Acquirable(Waiting)
    /\ \E u \in Ids, a \in Times : connect_srv(u, a, now)

(* the reserve requests of the threads: one user asks for the widest       *)
(* window                                                                  *)
LockRequests ==
    [name : {"svea1"}, time_ref : Times, route : {<<"left", "right">>},
     window : {<<0, Sec(MAX_WINDOW_ENTRY)>>}]

(* a handler or the timer starts, with at most two threads under way *)
EnterStep ==
    /\ resp = NoResp
    /\ Free(2)
    /\ \/ \E u \in Ids, a \in Times : notify_srv_enter(u, a)
       \/ \E req \in LockRequests : reserve_enter(req)
       \/ clean_sessions_tmr_enter

(* a thread that is under way takes its next step *)
ThreadStep ==
    /\ resp = NoResp
    /\ \E c \in Waiting :
          \/ notify_srv_select_session(c)
          \/ notify_srv_for(c)
          \/ clean_sessions_tmr_for(c)
          \/ \E result \in AnalysisResults : reserve_add_reservation(c, result)
          \/ add_reservation_for(c)
          \/ add_reservation_reserved(c)

NextLock ==
    \/ LockConnectStep
    \/ EnterStep
    \/ ThreadStep
    \/ service_wrp
    \/ Tick

SpecLock == Init /\ [][NextLock]_vars

----------------------------------------------------------------------------
(* The same threads with latest_reserve_time taken apart for one caller, a *)
(* connect_srv of the user truck: get_sessions hands it a list of the      *)
(* session dicts themselves, which it then reads field by field without    *)
(* the lock. No session leaves the store here: each user of Ids connects   *)
(* once and the clock stands still.                                        *)

(* connect_srv calls latest_reserve_time, which calls get_sessions *)
latest_reserve_time_get_sessions(ego_sid, ego_arrival_time) ==
    /\ Acquirable(Waiting)
    /\ calls' = calls (+) SetToBag({[op |-> "connect_srv", pc |-> "for", held |-> 0,
                                      usr |-> ego_sid, arrival_time |-> ego_arrival_time,
                                      todo |-> DOMAIN sessions \ {ego_sid},
                                      num_unreserved_hpv |-> 0, lrt |-> 0,
                                      read |-> << >>]})
    /\ UNCHANGED <<sessions, now, resp>>

(* line 341: the arrival time of the next session of the list is read *)
latest_reserve_time_arrival_time(c) ==
    /\ c.op = "connect_srv" /\ c.pc = "for"
    /\ \E oth_sid \in c.todo :
          Become(c, [c EXCEPT !.pc = "reserved",
                              !.read = <<oth_sid, sessions[oth_sid].arrival_time>>])
    /\ UNCHANGED <<sessions, now, resp>>

(* lines 342-355: the flag of that session is read, and the session is     *)
(* skipped, counted, or ends the loop                                      *)
latest_reserve_time_reserved(c) ==
    /\ c.op = "connect_srv" /\ c.pc = "reserved"
    /\ LET oth_sid == c.read[1]
           ego_before_other == c.read[2] - c.arrival_time
           reserved == sessions[oth_sid].reserved
           seen == [c EXCEPT !.read = <<oth_sid, c.read[2], reserved>>,
                             !.todo = c.todo \ {oth_sid}]
       IN  IF reserved
           THEN IF 0 < ego_before_other
                THEN Become(c, [seen EXCEPT !.pc = "return", !.lrt = now])
                ELSE Become(c, [seen EXCEPT !.pc = "for"])
           ELSE IF 0 < ego_before_other \/ Sec(TIME_HORIZON) < -ego_before_other
                THEN Become(c, [seen EXCEPT !.pc = "for"])
                ELSE Become(c, [seen EXCEPT !.pc = "for",
                                            !.num_unreserved_hpv = c.num_unreserved_hpv + 1])
    /\ UNCHANGED <<sessions, now, resp>>

(* lines 359-361 and the rest of connect_srv *)
connect_srv_return(c) ==
    /\ c.op = "connect_srv"
    /\ c.pc = "return" \/ (c.pc = "for" /\ c.todo = {})
    /\ LET time_needed == COMPUTE_TIME * (c.num_unreserved_hpv + 1) + COMPUTE_TIME
           lrt == IF c.pc = "return" THEN c.lrt ELSE c.arrival_time - Sec(time_needed)
           r == [NoResp EXCEPT !.op = "connect"]
       IN  IF Late(lrt, now)
           THEN /\ resp' = [r EXCEPT !.transit_time = -1000]
                /\ UNCHANGED sessions
           ELSE /\ Acquirable(Waiting \ {c})
                /\ sessions' = sessions_add(sessions, c.usr, NewSession(lrt, c.arrival_time))
                /\ resp' = [r EXCEPT !.transit_time = TRANSIT_TIME, !.success = TRUE]
    /\ Return(c)
    /\ UNCHANGED now

(* a user of Ids connects for the first time *)
FirstConnectStep ==
    /\ resp = NoResp
    /\ Acquirable(Waiting)
    /\ \E u \in Ids \ DOMAIN sessions, a \in Times : connect_srv(u, a, now)

(* the connect_srv of truck starts or takes its next step *)
SnapshotStep ==
    /\ resp = NoResp
    /\ \/ Free(2) /\ \E a \in Times : latest_reserve_time_get_sessions("truck", a)
       \/ \E c \in Waiting :
             \/ latest_reserve_time_arrival_time(c)
             \/ latest_reserve_time_reserved(c)
             \/ connect_srv_return(c)

NextSnapshot ==
    \/ FirstConnectStep
    \/ EnterStep
    \/ ThreadStep
    \/ SnapshotStep
    \/ service_wrp

SpecSnapshot == Init /\ [][NextSnapshot]_vars

----------------------------------------------------------------------------
(* The state callback. It runs in the thread of the subscriber, next to    *)
(* the timer of clean_sessions_tmr; resp holds what the last callback did: *)
(* the message it published on Limits, or the way it ended.                *)

(* len(self.solver.timeline), for the Solver made with time_step TIME_STEP *)
(* and time_horizon TIME_HORIZON: the steps 0, TIME_STEP, .., TIME_HORIZON *)
TimelineLen == Sec(TIME_HORIZON) \div TIME_STEP + 1

(* the elapsed times up to 20 s, in tenths of a second, at which the float *)
(* floor division x // 0.2 is one less than the floor of x / 0.2           *)
FloorDivShort ==
    {6, 10, 12, 14, 18, 20, 24, 26, 28, 30, 34, 36, 38, 40, 42, 46, 48, 50,
     52, 56, 58, 60, 62, 66, 68, 70, 72, 74, 76, 78, 80, 82, 84, 86, 90, 92,
     94, 96, 100, 102, 104, 106, 110, 112, 114, 116, 120, 122, 124, 126,
     130, 132, 134, 136, 138, 140, 142, 144, 146, 148, 150, 152, 154, 156,
     158, 160, 162, 164, 168, 170, 172, 174, 178, 180, 182, 184, 188, 190,
     192, 194, 198, 200}

(* i = (now - time_ref).total_seconds() // self.TIME_STEP, for an elapsed  *)
(* time in tenths of a second; outside 0 .. 20 s the index is out of the   *)
(* timeline whichever way it is rounded                                    *)
TimelineIndex(elapsed) ==
    IF elapsed \in FloorDivShort THEN elapsed \div TIME_STEP - 1
    ELSE elapsed \div TIME_STEP

(* the index check of state_cb: 0 <= i < len(self.solver.timeline)-1 *)
InsideTimeline(i) == 0 <= i /\ i < TimelineLen - 1

(* what a state callback did *)
StateOutcome(usr_id, published, reason, i, clock, time_ref) ==
    [op |-> "state_cb", transit_time |-> 0, success |-> published,
     reason |-> reason, usr |-> usr_id, i |-> i, clock |-> clock,
     time_ref |-> time_ref]

(* state_cb up to its first look at the store, made without the lock *)
state_cb_enter(usr_id) ==
    /\ calls = EmptyBag
    /\ IF usr_id \notin DOMAIN sessions
         THEN /\ resp' = StateOutcome(usr_id, FALSE, "not connected", 0, now, 0)
              /\ UNCHANGED calls
         ELSE /\ calls' = SetToBag({[op |-> "state_cb", pc |-> "select_session",
                                      held |-> 0, usr |-> usr_id]})
              /\ UNCHANGED resp
    /\ UNCHANGED <<sessions, now>>

(* state_cb from its loop over select_session to the end: the loop binds   *)
(* time_ref and pass4 if the session is still in the store, and the index  *)
(* is taken from a reading of the clock after the loop                     *)
state_cb_select_session(c) ==
    /\ c.op = "state_cb"
    /\ Acquirable(Waiting \ {c})
    /\ IF c.usr \notin DOMAIN sessions
         THEN resp' = StateOutcome(c.usr, FALSE, "UnboundLocalError", 0, now, 0)
         ELSE IF ~sessions[c.usr].reserved
         THEN resp' = StateOutcome(c.usr, FALSE, "not reserved", 0, now, 0)
         ELSE LET time_ref == sessions[c.usr].reservation.time_ref
                  i == TimelineIndex(now - time_ref)
              IN  IF ~InsideTimeline(i)
                  THEN resp' = StateOutcome(c.usr, FALSE, "outside timeline",
                                            i, now, time_ref)
                  ELSE resp' = StateOutcome(c.usr, TRUE, "", i, now, time_ref)
    /\ Return(c)
    /\ UNCHANGED <<sessions, now>>

(* the instants of the state samples: around the start and around the end  *)
(* of the tube of a reservation for RaceArrival, and a second after the    *)
(* timeout of its session                                                  *)
StateInstants ==
    {RaceArrival + d : d \in {-1, 0, 6, Sec(TIME_HORIZON) - TIME_STEP,
                              Sec(TIME_HORIZON), Sec(TIME_HORIZON) + TIME_STEP,
                              Sec(SESSION_TIMEOUT) + Sec(1)}}

StateTick ==
    /\ resp = NoResp
    /\ \E c \in StateInstants : c > now /\ now' = c
    /\ UNCHANGED <<sessions, calls, resp>>

StateReserveSrvStep ==
    /\ resp = NoResp
    /\ calls = EmptyBag
    /\ \E req \in WideRequests, c \in LaterReadings : reserve_srv(req, c)

StateReserveStep ==
    /\ resp = NoResp
    /\ \E l \in Waiting, result \in WideResults :
          /\ "op" \notin DOMAIN l
          /\ reserve(l, result)

StateStep ==
    /\ resp = NoResp
    /\ \/ \E u \in RaceIds : state_cb_enter(u)
       \/ \E c \in Waiting : "op" \in DOMAIN c /\ state_cb_select_session(c)

NextState ==
    \/ RaceConnectStep
    \/ StateReserveSrvStep
    \/ StateReserveStep
    \/ StateStep
    \/ clean_sessions_tmr
    \/ StateTick
    \/ service_wrp

SpecState == Init /\ [][NextState]_vars

----------------------------------------------------------------------------
(* The splice of resolve_dangers. *)

(* ceil(x / self.TIME_STEP), for x >= 0 in tenths of a second *)
CeilDiv(x) == (x + TIME_STEP - 1) \div TIME_STEP

(* the number of steps of a[lo:hi], for an array of len steps *)
SliceLen(lo, hi, len) == Max(0, Min(hi, len) - Min(lo, len))

(* the lengths of the two slices of the assignment resolve_dangers makes   *)
(* for a reservation with reference time other_ref: dst of danger, src of  *)
(* the other tube pass4, both arrays of TimelineLen steps                  *)
Splice(time_ref, other_ref) ==
    LET earliest_overlap == Max(time_ref, other_ref)
        latest_overlap == Min(time_ref + Sec(TIME_HORIZON),
                              other_ref + Sec(TIME_HORIZON))
    IN  IF time_ref < earliest_overlap
        THEN LET i == CeilDiv(earliest_overlap - time_ref)
                 j == CeilDiv(latest_overlap - other_ref)
             IN  [dst |-> SliceLen(i, TimelineLen, TimelineLen),
                  src |-> SliceLen(0, j, TimelineLen)]
        ELSE LET i == CeilDiv(earliest_overlap - other_ref)
                 j == CeilDiv(latest_overlap - time_ref)
             IN  [dst |-> SliceLen(0, j, TimelineLen),
                  src |-> SliceLen(i, i + j, TimelineLen)]

----------------------------------------------------------------------------
(* The threads of SpecLock together with the state callback, each thread   *)
(* that holds sessions_lock being scheduled until it gives the lock back.  *)

(* the thread that holds the lock takes its next step *)
HolderStep ==
    /\ resp = NoResp
    /\ \E c \in Holders :
          \/ notify_srv_for(c)
          \/ clean_sessions_tmr_for(c)
          \/ add_reservation_for(c)
          \/ add_reservation_reserved(c)

NextRelease ==
    \/ LockConnectStep
    \/ EnterStep
    \/ ThreadStep
    \/ StateStep
    \/ service_wrp
    \/ Tick

SpecRelease ==
    Init /\ [][NextRelease]_vars /\ WF_vars(HolderStep) /\ WF_vars(service_wrp)

----------------------------------------------------------------------------
(* The server of SpecClock with the timer of clean_sessions_tmr and a      *)
(* clock that moves on through the instants of ReaperInstants; the timer   *)
(* fires every two seconds and time does not stop, whatever the handlers   *)
(* do.                                                                     *)
NextEvict ==
    \/ ConnectStep
    \/ NotifyStep
    \/ ClockReserveSrvStep
    \/ ReserveStep
    \/ service_wrp
    \/ clean_sessions_tmr
    \/ ReaperTick

SpecEvict ==
    /\ Init /\ [][NextEvict]_vars
    /\ WF_vars(service_wrp)
    /\ SF_vars(clean_sessions_tmr)
    /\ SF_vars(ReaperTick)

----------------------------------------------------------------------------
(* Every operation that touches the store, one after the other: connect    *)
(* and notify of the users of Ids, reserve of one of them, the state       *)
(* callback for a user that connects and one that never does, and the      *)
(* timer.                                                                  *)
NextStore ==
    \/ ConnectStep
    \/ NotifyStep
    \/ StateReserveSrvStep
    \/ StateReserveStep
    \/ StateStep
    \/ clean_sessions_tmr
    \/ StateTick
    \/ service_wrp

SpecStore == Init /\ [][NextStore]_vars

----------------------------------------------------------------------------
(* The claims. *)

(* the reasons of reserve_srv that stand for BadRoute *)
BadRouteReasons ==
    {"Illegal entry region", "Illegal exit region", "Illegal route through region"}

(* a request whose route the claim C9 calls bad *)
BadRouteRequest(req) ==
    \/ req.route[1] = req.route[2]
    \/ req.route[1] \notin ENTRY_LOCATIONS
    \/ req.route[2] \notin EXIT_LOCATIONS
    \/ req.route \notin PERMITTED_ROUTES

(* a step in which reserve_srv may have been called: it has returned a    *)
(* response, or one more call waits for the analysis                       *)
ReserveCall ==
    resp'.op = "reserve" \/ calls' # calls

(* two windows [time_ref, time_ref + TIME_HORIZON) overlap *)
WindowsOverlap(time_ref1, time_ref2) ==
    Max(time_ref1, time_ref2) < Min(time_ref1, time_ref2) + Sec(TIME_HORIZON)

(* C1: a reserve call that comes to its commit on a session whose reserved *)
(* flag is already true does not report success, and it leaves the stored  *)
(* reservation as it was.                                                  *)
C1_AlreadyReserved ==
    [][\A l \in Waiting, result \in AnalysisResults :
         (/\ reserve(l, result)
          /\ l.usr \in DOMAIN sessions
          /\ sessions[l.usr].reserved)
         => /\ ~resp'.success
            /\ sessions'[l.usr].reservation = sessions[l.usr].reservation]_vars

(* C2: no step of notify, of reserve or of the reaper takes the reserved   *)
(* flag of a session that stays in the store from true to false.           *)
C2_ReservedMonotonic ==
    [][\/ \A sid \in DOMAIN sessions \cap DOMAIN sessions' :
              sessions[sid].reserved => sessions'[sid].reserved
       \/ ~(NotifyStep \/ ReserveSrvStep \/ ReserveStep \/ clean_sessions_tmr)]_vars

(* C2, witness: a notify has just been turned down because its session is  *)
(* reserved, and the session is still reserved.                            *)
C2_Witness ==
    /\ resp.op = "notify"
    /\ resp.transit_time = -2000
    /\ \E sid \in DOMAIN sessions : sessions[sid].reserved

(* C3: a connect whose id is already in the store fails and leaves the     *)
(* store as it was.                                                        *)
C3_AlreadyExists ==
    [][\A u \in Ids, a \in Times, c \in ClockInstants :
         (connect_srv(u, a, c) /\ u \in DOMAIN sessions)
         => (~resp'.success /\ sessions' = sessions)]_vars

(* C4: when another session is reserved and arrives strictly later than    *)
(* the candidate, connect, notify and reserve are turned down by their     *)
(* deadline check.                                                         *)
C4_ViolationRejected ==
    [][/\ \A u \in Ids, a \in Times, c \in ClockInstants :
            (connect_srv(u, a, c) /\ PriorityViolation(sessions, u, a))
            => resp'.transit_time = -1000
       /\ \A u \in Ids, a \in Times, c \in ClockInstants :
            (notify_srv(u, a, c) /\ PriorityViolation(sessions, u, a))
            => resp'.transit_time = -1000
       /\ \A req \in RoutedRequests, c \in ClockInstants :
            (reserve_srv(req, c) /\ PriorityViolation(sessions, req.name, req.time_ref))
            => (calls' = calls /\ resp'.reason = "Reservation late")]_vars

(* C5: a reserve call whose session id was not in the store when the call  *)
(* came in, and is not there when it returns, does not report success.     *)
C5_UnknownRejected ==
    [][\A l \in Waiting, result \in AnalysisResults :
         (reserve(l, result) /\ ~l.known /\ l.usr \notin DOMAIN sessions)
         => ~resp'.success]_vars

(* C6: a reserve call whose session was in the store when the call came in *)
(* and has been deleted before the commit does not report success.         *)
C6_LateCommitRejected ==
    [][\A l \in Waiting, result \in AnalysisResults :
         (reserve(l, result) /\ l.known /\ l.usr \notin DOMAIN sessions)
         => (~resp'.success /\ sessions' = sessions)]_vars

(* C7: the dangers reserve hands to the safety analysis are the tubes of   *)
(* all reserved sessions whose window overlaps the candidate's, but for    *)
(* the session of the call itself.                                         *)
C7_OnlyOwnOmitted ==
    [][\A req \in RoutedRequests, c \in ClockInstants :
         (reserve_srv(req, c) /\ calls' # calls)
         => LET l == Locals(sessions, req)
            IN  /\ BagIn(l, calls')
                /\ l.dangers = resolve_dangers(sessions, l.time_ref) \ {req.name}]_vars

(* C8: of two reservations in the store whose windows overlap, one was     *)
(* analysed with the tube of the other among its dangers.                  *)
C8_OverlapAnalysed ==
    \A a \in get_reservations(sessions), b \in get_reservations(sessions) :
        (a # b /\ WindowsOverlap(sessions[a].reservation.time_ref,
                                 sessions[b].reservation.time_ref))
        => \/ a \in sessions[b].reservation.analysis.dangers
           \/ b \in sessions[a].reservation.analysis.dangers

(* C9 as stated: a reserve call with a bad route fails BadRoute and        *)
(* changes no session.                                                     *)
C9_BadRouteAlways ==
    [][ReserveCall =>
         \A req \in Requests :
           (BadRouteRequest(req) /\ reserve_srv(req, now'))
           => /\ calls' = calls
              /\ ~resp'.success
              /\ resp'.reason \in BadRouteReasons
              /\ sessions' = sessions]_vars

(* C9, amended: a reserve call with a time_ref that parses and a bad route *)
(* fails BadRoute and changes no session.                                  *)
C9_BadRouteParsed ==
    [][ReserveCall =>
         \A req \in Requests :
           (BadRouteRequest(req) /\ req.time_ref # Malformed /\ reserve_srv(req, now'))
           => /\ calls' = calls
              /\ ~resp'.success
              /\ resp'.reason \in BadRouteReasons
              /\ sessions' = sessions]_vars

(* C9, witness: a reserve has just been turned down for its route while    *)
(* the store holds a session.                                              *)
C9_Witness ==
    /\ resp.op = "reserve"
    /\ resp.reason \in BadRouteReasons
    /\ DOMAIN sessions # {}

(* C10: a step by which a reserve call returns without success for being   *)
(* late, for its window or for the window the analysis left leaves the     *)
(* store as it was.                                                        *)
C10_RejectedReserveFrame ==
    [][(/\ resp'.op = "reserve" /\ ~resp'.success
        /\ resp'.reason \in {"Reservation late", "Invalid window offsetting",
                             "Invalid entry window requested",
                             "No time window to enter region"}
        /\ (ReserveSrvStep \/ ReserveStep))
         => sessions' = sessions]_vars

(* C10, witness: a reserve has just been turned down after its analysis,   *)
(* and the store holds a session that is not reserved.                     *)
C10_Witness ==
    /\ resp.op = "reserve"
    /\ resp.reason = "No time window to enter region"
    /\ \E sid \in DOMAIN sessions : ~sessions[sid].reserved

(* the transit_time codes by which notify_srv turns a call down *)
NotifyRejections == {-1000, -2000, -3000}

(* C11: a step by which a notify call returns one of its three rejections  *)
(* leaves the store as it was.                                             *)
C11_RejectedNotifyFrame ==
    [][(/\ resp'.op = "notify"
        /\ resp'.transit_time \in NotifyRejections
        /\ NotifyStep)
         => sessions' = sessions]_vars

(* C11, witness: a notify has just been turned down by its deadline check  *)
(* while the store holds a session that is not reserved.                   *)
C11_Witness ==
    /\ resp.op = "notify"
    /\ resp.transit_time = -1000
    /\ \E sid \in DOMAIN sessions : ~sessions[sid].reserved

(* C12: a notify call whose id is not in the store returns -3000.          *)
C12_UnknownNotFound ==
    [][\A u \in Ids, a \in Times :
         (u \notin DOMAIN sessions /\ resp'.op = "notify" /\ notify_srv(u, a, now'))
         => resp'.transit_time = -3000]_vars

(* C13: connect stores a fresh session exactly when the deadline it        *)
(* computed is strictly later than the instant it read for the check, and  *)
(* otherwise returns -1000 and leaves the store as it was.                 *)
C13_ConnectStrictlyFuture ==
    [][\A u \in Ids, a \in Times :
         (resp'.op = "connect" /\ connect_srv(u, a, now'))
         => LET lrt == latest_reserve_time(sessions, u, a, now)
            IN  IF now' < lrt
                THEN /\ u \in DOMAIN sessions'
                     /\ ~sessions'[u].reserved
                     /\ sessions'[u].reservation = NoReservation
                ELSE /\ resp'.transit_time = -1000
                     /\ sessions' = sessions]_vars

(* the ids and arrival times latest_reserve_time is asked about: the ids   *)
(* of the store and one that never connects, arrival times at, on the edge *)
(* of and beyond TIME_HORIZON after the arrival times of the store         *)
EgoIds == Ids \cup RaceIds

EgoArrivals ==
    Times \cup {t + d : t \in Times, d \in {Sec(TIME_HORIZON), Sec(TIME_HORIZON) + 10}}

(* the other sessions that count as higher-priority unreserved contenders: *)
(* not reserved, arriving no later than ego and at most TIME_HORIZON       *)
(* before it                                                               *)
Contenders(S, ego, egoArrival) ==
    {sid \in DOMAIN S \ {ego} :
        /\ ~S[sid].reserved
        /\ S[sid].arrival_time <= egoArrival
        /\ egoArrival - S[sid].arrival_time <= Sec(TIME_HORIZON)}

(* the store without the session sid *)
Without(S, sid) == [oth \in DOMAIN S \ {sid} |-> S[oth]]

(* the deadline for ego when it takes `slots` compute slots more than it   *)
(* has contenders                                                          *)
DeadlineWithSlots(slots) ==
    \A ego \in EgoIds, egoArrival \in EgoArrivals :
        ~PriorityViolation(sessions, ego, egoArrival)
        => latest_reserve_time(sessions, ego, egoArrival, now)
             = egoArrival
                 - Sec(COMPUTE_TIME)
                     * (Cardinality(Contenders(sessions, ego, egoArrival)) + slots)

(* C14, as stated: without a priority violation latest_reserve_time is     *)
(* egoArrival minus COMPUTE_TIME times (n + 1), n the number of            *)
(* contenders.                                                             *)
C14_DeadlinePerContender == DeadlineWithSlots(1)

(* C14, amended: without a priority violation latest_reserve_time is       *)
(* egoArrival minus COMPUTE_TIME times (n + 2): one slot per contender,    *)
(* one for ego and the heuristic extra one.                                *)
C14_DeadlineWithExtra == DeadlineWithSlots(2)

(* C14, witness: a session is stored with the deadline connect or notify   *)
(* computed for it against one contender, and that contender is still in   *)
(* the store.                                                              *)
C14_Witness ==
    \E sid \in DOMAIN sessions :
        /\ ~PriorityViolation(sessions, sid, sessions[sid].arrival_time)
        /\ Cardinality(Contenders(sessions, sid, sessions[sid].arrival_time)) = 1
        /\ sessions[sid].latest_reserve_time
             = sessions[sid].arrival_time - Sec(COMPUTE_TIME) * 3

(* C15, as stated: with egoArrival fixed, the store with one more          *)
(* contender gives ego a deadline exactly one COMPUTE_TIME earlier than    *)
(* the store without it.                                                   *)
C15_ContenderCostsOneSlot ==
    \A ego \in EgoIds, egoArrival \in EgoArrivals :
        \A sid \in Contenders(sessions, ego, egoArrival) :
            latest_reserve_time(sessions, ego, egoArrival, now)
              = latest_reserve_time(Without(sessions, sid), ego, egoArrival, now)
                  - Sec(COMPUTE_TIME)

(* C15, amended: the same when no reserved session arrives strictly later  *)
(* than ego; when one does the deadline is the current instant with and    *)
(* without the contender; so the deadline never grows with a contender.    *)
C15_ContenderCostsOneSlotUnlessViolation ==
    \A ego \in EgoIds, egoArrival \in EgoArrivals :
        \A sid \in Contenders(sessions, ego, egoArrival) :
            LET with == latest_reserve_time(sessions, ego, egoArrival, now)
                without == latest_reserve_time(Without(sessions, sid), ego, egoArrival, now)
            IN  /\ with <= without
                /\ IF PriorityViolation(sessions, ego, egoArrival)
                   THEN with = now /\ without = now
                   ELSE with = without - Sec(COMPUTE_TIME)

(* C15, witness: the store holds two unreserved sessions, so that an ego   *)
(* arriving with the later one has two contenders and each of them costs   *)
(* it a slot.                                                              *)
C15_Witness ==
    \E ego \in EgoIds \ DOMAIN sessions, egoArrival \in EgoArrivals :
        /\ ~PriorityViolation(sessions, ego, egoArrival)
        /\ Cardinality(Contenders(sessions, ego, egoArrival)) = 2
        /\ latest_reserve_time(sessions, ego, egoArrival, now)
             = egoArrival - Sec(COMPUTE_TIME) * 4

(* C16: every session of the store times out SESSION_TIMEOUT after its     *)
(* arrival time.                                                           *)
C16_TimeoutFollowsArrival ==
    \A sid \in DOMAIN sessions :
        sessions[sid].session_timeout
          = sessions[sid].arrival_time + Sec(SESSION_TIMEOUT)

(* C16, witness: a notify has just been accepted and gave a session an     *)
(* arrival time other than the one another session connected with.         *)
C16_Witness ==
    /\ resp.op = "notify"
    /\ resp.success
    /\ \E sid, oth \in DOMAIN sessions :
          sessions[sid].arrival_time # sessions[oth].arrival_time

(* C17: every reservation in the store has                                 *)
(* 0 <= earliest_entry <= latest_entry <= TIME_HORIZON.                    *)
C17_EntryWindowInHorizon ==
    \A sid \in get_reservations(sessions) :
        LET reservation == sessions[sid].reservation
        IN  /\ 0 <= reservation.earliest_entry
            /\ reservation.earliest_entry <= reservation.latest_entry
            /\ reservation.latest_entry <= Sec(TIME_HORIZON)

(* C17, witness: a reservation is stored for a request that asked for more *)
(* than TIME_HORIZON with a result whose entry bounds lie outside          *)
(* [0, TIME_HORIZON] on both sides.                                        *)
C17_Witness ==
    \E sid \in get_reservations(sessions) :
        /\ sessions[sid].reservation.earliest_entry = 0
        /\ sessions[sid].reservation.latest_entry = Sec(TIME_HORIZON)
        /\ sessions[sid].reservation.earliest_exit = 140
        /\ sessions[sid].reservation.latest_exit = 350

(* C18, as stated: every reservation in the store has its exit bounds      *)
(* TRANSIT_TIME after its entry bounds.                                    *)
C18_ExitIsEntryPlusTransit ==
    \A sid \in get_reservations(sessions) :
        LET reservation == sessions[sid].reservation
        IN  /\ reservation.earliest_exit = reservation.earliest_entry + Sec(TRANSIT_TIME)
            /\ reservation.latest_exit = reservation.latest_entry + Sec(TRANSIT_TIME)

(* the analysis put its exit bounds TRANSIT_TIME after its entry bounds,   *)
(* and its entry bounds inside the window reserve asked it about           *)
TransitResult(l, result) ==
    /\ result.earliest_exit = result.earliest_entry + Sec(TRANSIT_TIME)
    /\ result.latest_exit = result.latest_entry + Sec(TRANSIT_TIME)
    /\ l.earliest_entry <= result.earliest_entry
    /\ result.latest_entry <= l.latest_entry

(* C18, amended: a reservation is stored with the exit bounds the analysis *)
(* returned, which are TRANSIT_TIME after its entry bounds when the        *)
(* analysis returned them so for entry bounds inside the asked window.     *)
C18_ExitIsAnalysisExit ==
    [][resp'.op = "reserve" /\ resp'.success
         => \A l \in Waiting, result \in WideResults :
              (reserve(l, result) /\ l.usr \in DOMAIN sessions)
              => LET reservation == sessions'[l.usr].reservation
                 IN  /\ sessions'[l.usr].reserved
                     /\ reservation.earliest_exit = result.earliest_exit
                     /\ reservation.latest_exit = result.latest_exit
                     /\ TransitResult(l, result)
                          => /\ reservation.earliest_exit
                                  = reservation.earliest_entry + Sec(TRANSIT_TIME)
                             /\ reservation.latest_exit
                                  = reservation.latest_entry + Sec(TRANSIT_TIME)]_vars

(* C18, witness: one session has two entry bounds that reserve narrowed    *)
(* and the exit bounds of the analysis, 1 s and 15 s later than            *)
(* TRANSIT_TIME after them.                                                *)
C18_Witness ==
    /\ resp.op = "reserve"
    /\ resp.success
    /\ \E sid \in get_reservations(sessions) :
          /\ sessions[sid].reservation.earliest_entry = 0
          /\ sessions[sid].reservation.latest_entry = 10
          /\ sessions[sid].reservation.earliest_exit = 150
          /\ sessions[sid].reservation.latest_exit = 170

(* C19: every reservation in the store has earliest_exit <= latest_exit.   *)
C19_ExitWindowOrdered ==
    \A sid \in get_reservations(sessions) :
        sessions[sid].reservation.earliest_exit <= sessions[sid].reservation.latest_exit

(* C20: a run of clean_sessions_tmr removes every session whose            *)
(* session_timeout is at or before now.                                    *)
C20_ReaperDeletesDue ==
    [][clean_sessions_tmr
         => \A sid \in DOMAIN sessions :
              sessions[sid].session_timeout <= now => sid \notin DOMAIN sessions']_vars

(* C21: a run of clean_sessions_tmr adds no session, keeps every session   *)
(* whose session_timeout is later than now, and leaves every session it    *)
(* keeps as it was.                                                        *)
C21_ReaperKeepsLive ==
    [][clean_sessions_tmr
         => /\ DOMAIN sessions' \subseteq DOMAIN sessions
            /\ \A sid \in DOMAIN sessions :
                  /\ now < sessions[sid].session_timeout => sid \in DOMAIN sessions'
                  /\ sid \in DOMAIN sessions' => sessions'[sid] = sessions[sid]]_vars

(* C21, witness: the store holds one session, whose deadline was computed  *)
(* against a contender and whose timeout is still ahead; the contender is  *)
(* gone, which only clean_sessions_tmr can have done.                      *)
C21_Witness ==
    /\ Cardinality(DOMAIN sessions) = 1
    /\ \E sid \in DOMAIN sessions :
          /\ now < sessions[sid].session_timeout
          /\ 0 < now
          /\ sessions[sid].latest_reserve_time
               = sessions[sid].arrival_time - Sec(COMPUTE_TIME) * 3

(* the session a thread works on *)
SessionOf(c) == IF c.op = "reserve" THEN c.l.usr ELSE c.usr

(* C22: at most one thread holds sessions_lock, and a thread of notify_srv *)
(* or add_reservation that stands in its loop over select_session, about   *)
(* to write to the session it was given, finds that session in the store.  *)
C22_DeletionExcludesMutation ==
    /\ \A c \in Holders : CopiesIn(c, calls) = 1 /\ Holders = {c}
    /\ \A c \in Waiting :
          (c.op \in {"notify_srv", "reserve"} /\ c.pc = "for")
          => SessionOf(c) \in DOMAIN sessions

(* C22, witness: clean_sessions_tmr holds the lock and is about to delete  *)
(* a session, while a notify_srv for that session waits in front of        *)
(* select_session.                                                         *)
C22_Witness ==
    \E c, d \in Waiting :
        /\ c.op = "clean_sessions_tmr" /\ c.held = 1
        /\ d.op = "notify_srv" /\ d.pc = "select_session"
        /\ d.usr \in DOMAIN sessions \ Survivors(sessions, c.clock)

(* C24: a reserve call that waits for run_analysis does not hold           *)
(* sessions_lock; it holds the lock exactly while it stands in the loop of *)
(* add_reservation.                                                        *)
C24_AnalysisOutsideLock ==
    \A c \in Waiting :
        c.op = "reserve" => (c.held > 0 <=> c.pc = "for")

(* C24, witness: a notify_srv has gone through select_session and has      *)
(* answered while a reserve call waits for run_analysis.                   *)
C24_Witness ==
    /\ resp.op = "notify"
    /\ resp.success
    /\ \E c \in Waiting : c.op = "reserve" /\ c.pc = "run_analysis"

(* C23: when latest_reserve_time has read a session as reserved, the       *)
(* arrival time it read for it before is the arrival time of that session. *)
C23_PairHeldTogether ==
    \A c \in Waiting :
        (c.op = "connect_srv" /\ Len(c.read) = 3 /\ c.read[3])
        => c.read[2] = sessions[c.read[1]].arrival_time

(* the session of usr_id is as an accepted notify with arrival_time would  *)
(* have left it in the company of the sessions the store holds now         *)
Notified(usr_id, arrival_time) ==
    /\ usr_id \in DOMAIN sessions
    /\ ~sessions[usr_id].reserved
    /\ sessions[usr_id].arrival_time = arrival_time
    /\ \E c \in ClockInstants :
          /\ c <= now
          /\ sessions[usr_id].latest_reserve_time
               = latest_reserve_time(sessions, usr_id, arrival_time, c)

(* C25: an accepted notify that repeats the arrival time of an accepted    *)
(* notify before it, the other sessions being the same, leaves the session *)
(* with the same deadline and in the same state.                           *)
C25_NotifyIdempotent ==
    [][(resp'.op = "notify" /\ resp'.success)
         => \A u \in Ids, a \in Times :
              (Notified(u, a) /\ notify_srv(u, a, now'))
              => sessions'[u] = sessions[u]]_vars

(* the reference times resolve_dangers is asked about: the reference times *)
(* of the requests, and times a tenth of a second less than TIME_HORIZON   *)
(* and exactly TIME_HORIZON before and after them                          *)
DangerTimes ==
    {t + d : t \in Times,
             d \in {-Sec(TIME_HORIZON), 1 - Sec(TIME_HORIZON), 0,
                    Sec(TIME_HORIZON) - 1, Sec(TIME_HORIZON)}}

C27_PublishInsideTube ==
    resp.op = "state_cb"
    => /\ resp.reason # "UnboundLocalError"
       /\ resp.success
            => /\ resp.usr \in DOMAIN sessions
               /\ sessions[resp.usr].reserved
               /\ resp.time_ref = sessions[resp.usr].reservation.time_ref
               /\ 0 <= (resp.clock - resp.time_ref) \div TIME_STEP
               /\ (resp.clock - resp.time_ref) \div TIME_STEP < TimelineLen - 1
               /\ resp.i + 1 < TimelineLen

(* C28: a reservation is granted only with preparation time left: a        *)
(* reserve call of a connected user that passes the deadline check of      *)
(* reserve_srv, as every call that commits has, carries a time_ref at      *)
(* least COMPUTE_TIME later than the clock read for the check.             *)
C28_PreparationTimeLeft ==
    [][\A l \in BagToSet(calls') :
          (CopiesIn(l, calls') > CopiesIn(l, calls) /\ l.known)
          => l.time_ref >= now' + Sec(COMPUTE_TIME)]_vars

(* C29: latest_reserve_time counts another session exactly when it is      *)
(* unreserved and 0 <= egoArrival - arrival_time <= TIME_HORIZON: sessions *)
(* arriving with ego or exactly TIME_HORIZON before it are counted;        *)
(* reserved sessions, unreserved sessions arriving strictly later or more  *)
(* than TIME_HORIZON earlier, and ego's own session are not.               *)
C29_CountedExactly ==
    \A ego \in EgoIds, egoArrival \in EgoArrivals :
        LET counted == UnreservedHpv(sessions, ego, egoArrival)
            gap(sid) == egoArrival - sessions[sid].arrival_time
        IN  /\ counted \subseteq DOMAIN sessions
            /\ ego \notin counted
            /\ \A sid \in DOMAIN sessions \ {ego} :
                  /\ sid \in counted
                       <=> (~sessions[sid].reserved
                            /\ 0 <= gap(sid) /\ gap(sid) <= Sec(TIME_HORIZON))
                  /\ (~sessions[sid].reserved /\ gap(sid) \in {0, Sec(TIME_HORIZON)})
                       => sid \in counted
                  /\ sessions[sid].reserved => sid \notin counted
                  /\ gap(sid) < 0 => sid \notin counted
                  /\ gap(sid) > Sec(TIME_HORIZON) => sid \notin counted

(* C29, witness: ego is in the store, unreserved, and asks about an        *)
(* arrival exactly TIME_HORIZON after the arrival stored for it and for    *)
(* another unreserved session: the other session is counted, ego's is not. *)
C29_Witness ==
    \E ego \in DOMAIN sessions, egoArrival \in EgoArrivals :
        \E sid \in DOMAIN sessions \ {ego} :
            /\ egoArrival - sessions[sid].arrival_time = Sec(TIME_HORIZON)
            /\ sessions[ego].arrival_time = sessions[sid].arrival_time
            /\ ~sessions[ego].reserved
            /\ UnreservedHpv(sessions, ego, egoArrival) = {sid}

(* C30: the time_ref reserve works with after its alignment step, the      *)
(* time_ref of the request plus offset, is on a TIME_STEP boundary:        *)
(* in the locals of every reserve call under way and in every reservation  *)
(* of the store, for requests whose own time_ref is a whole second.        *)
C30_ShiftedOnBoundary ==
    /\ \A l \in Waiting : l.time_ref % TIME_STEP = 0
    /\ \A sid \in get_reservations(sessions) :
          sessions[sid].reservation.time_ref % TIME_STEP = 0

(* the window of a request after reserve has clamped and aligned it *)
Aligned(req) ==
    LET earliest_entry == Max(req.window[1], 0)
        latest_entry == Min(req.window[2], Sec(TIME_HORIZON))
        offset == Offset(earliest_entry)
    IN  <<earliest_entry - offset, latest_entry - offset>>

(* the aligned window reserve has to turn down *)
InvalidWindow(w) ==
    \/ ~(0 <= w[1] /\ w[1] <= w[2] /\ w[2] <= Sec(TIME_HORIZON))
    \/ Min(w[2] - w[1], Sec(MAX_WINDOW_ENTRY)) = 0

(* C31: a reserve call that gets past the deadline check with a window     *)
(* that, clamped and aligned, is not 0 <= earliest_entry <= latest_entry   *)
(* <= TIME_HORIZON or has min(latest_entry - earliest_entry,               *)
(* MAX_WINDOW_ENTRY) zero, fails with one of the two invalid-window        *)
(* reasons, stores nothing and does not get to run_analysis.               *)
C31_InvalidWindowRejected ==
    [][\A req \in WideRequests :
          (/\ resp = NoResp
           /\ InvalidWindow(Aligned(req))
           /\ ~Late(latest_reserve_time(sessions, req.name, req.time_ref, now), now')
           /\ reserve_srv(req, now'))
          => /\ resp'.op = "reserve" /\ ~resp'.success
             /\ resp'.reason \in {"Invalid window offsetting",
                                  "Invalid entry window requested"}
             /\ sessions' = sessions
             /\ calls' = calls]_vars

(* C31, witness: the reserve call of a connected user has been turned down *)
(* for an empty entry window, with no reserve call under way.              *)
C31_Witness ==
    /\ resp.op = "reserve"
    /\ resp.reason = "Invalid entry window requested"
    /\ "svea1" \in DOMAIN sessions
    /\ ~sessions["svea1"].reserved
    /\ calls = EmptyBag

(* C32: when the requested entry bounds cut with the bounds run_analysis   *)
(* returned leave latest_entry <= earliest_entry, reserve fails with "No   *)
(* time window to enter region" and the store is as before: a session      *)
(* that was not reserved is still not reserved and has no reservation.     *)
C32_NegotiationFailed ==
    [][\A l \in Waiting, result \in WideResults :
          (/\ resp = NoResp
           /\ Min(l.latest_entry, result.latest_entry)
                 <= Max(l.earliest_entry, result.earliest_entry)
           /\ reserve(l, result))
          => /\ resp'.op = "reserve" /\ ~resp'.success
             /\ resp'.reason = "No time window to enter region"
             /\ sessions' = sessions
             /\ (l.usr \in DOMAIN sessions /\ ~sessions[l.usr].reserved)
                  => /\ ~sessions'[l.usr].reserved
                     /\ sessions'[l.usr].reservation = NoReservation]_vars

(* C32, witness: a reserve call has failed after its analysis, no call is  *)
(* under way, and the session of the caller is unreserved with no          *)
(* reservation.                                                            *)
C32_Witness ==
    /\ resp.op = "reserve"
    /\ resp.reason = "No time window to enter region"
    /\ calls = EmptyBag
    /\ "svea1" \in DOMAIN sessions
    /\ ~sessions["svea1"].reserved
    /\ sessions["svea1"].reservation = NoReservation

(* the thread that is between the two statements of add_reservation's loop *)
(* for the session sid                                                     *)
Committing(sid) ==
    {c \in Waiting : c.op = "reserve" /\ c.pc = "for" /\ c.line = 269 /\ c.l.usr = sid}

(* C33: a session has a reservation exactly when its reserved flag is      *)
(* true, except between the two statements of a commit, when the thread    *)
(* that commits is the only one that holds sessions_lock.                  *)
C33_ReservationIffReserved ==
    \A sid \in DOMAIN sessions :
        \/ sessions[sid].reserved <=> sessions[sid].reservation # NoReservation
        \/ \E c \in Committing(sid) : Holders = {c}

(* C33, witness: a commit is between its two statements, on a session      *)
(* that has the reservation and not yet the flag, while another thread     *)
(* waits for the lock to look up the same session.                         *)
C33_Witness ==
    \E sid \in DOMAIN sessions :
        /\ ~sessions[sid].reserved
        /\ sessions[sid].reservation # NoReservation
        /\ Committing(sid) # {}
        /\ \E d \in Waiting :
              d.op = "notify_srv" /\ d.pc = "select_session" /\ d.usr = sid

(* C34: for every reserved session that resolve_dangers(t) keeps, the      *)
(* slice of danger that is written and the slice of the other tube that is *)
(* read have the same number of timesteps, whether or not the difference   *)
(* of the two reference times is a multiple of TIME_STEP.                  *)
C34_SpliceSameLength ==
    \A t \in DangerTimes :
        \A sid \in resolve_dangers(sessions, t) :
            LET s == Splice(t, sessions[sid].reservation.time_ref)
            IN  s.dst = s.src

(* C35: the alignment step of reserve keeps the absolute window: time_ref  *)
(* + earliest_entry and time_ref + latest_entry are what they were after   *)
(* clamping, so is the width, and the earliest_entry that is left is a     *)
(* multiple of TIME_STEP, at least 0 and less than one second.             *)
C35_AlignmentKeepsWindow ==
    [][\A req \in WideRequests :
          (/\ resp = NoResp
           /\ ~Late(latest_reserve_time(sessions, req.name, req.time_ref, now), now')
           /\ reserve_srv(req, now'))
          => LET l == Locals(sessions, req)
                 earliest_entry == Max(req.window[1], 0)
                 latest_entry == Min(req.window[2], Sec(TIME_HORIZON))
             IN  /\ l.time_ref + l.earliest_entry = req.time_ref + earliest_entry
                 /\ l.time_ref + l.latest_entry = req.time_ref + latest_entry
                 /\ l.latest_entry - l.earliest_entry = latest_entry - earliest_entry
                 /\ 0 <= l.earliest_entry
                 /\ l.earliest_entry < Sec(1)
                 /\ l.earliest_entry % TIME_STEP = 0]_vars

(* C36: when a reserve call commits a reservation for its session, no      *)
(* other session of the store is reserved with an arrival_time strictly    *)
(* later than the time_ref of the call, whatever was committed since the   *)
(* call passed its deadline check.                                         *)
C36_NoLaterReservedAtCommit ==
    [][\A l \in Waiting, result \in AnalysisResults :
          (/\ resp = NoResp
           /\ reserve(l, result)
           /\ resp'.success
           /\ l.usr \in DOMAIN sessions)
          => \A oth \in DOMAIN sessions \ {l.usr} :
                ~(sessions[oth].reserved /\ l.time_ref < sessions[oth].arrival_time)]_vars

C38_DeletedSampleDropped ==
    [][\A c \in Waiting :
          (/\ "op" \in DOMAIN c
           /\ c.op = "state_cb"
           /\ c.usr \notin DOMAIN sessions
           /\ state_cb_select_session(c))
          => /\ ~resp'.success
             /\ resp'.reason # "UnboundLocalError"]_vars

(* C39: with the timer firing and time moving on, every session of the     *)
(* store is removed in the end, a reserved one too: connect and notify put *)
(* the timeout off only as long as their deadline check accepts them.      *)
C39_EventuallyEvicted ==
    \A u \in Ids : (u \in DOMAIN sessions) ~> (u \notin DOMAIN sessions)

(* C39, witness: a reserved session is in the store more than a second     *)
(* after its session_timeout, before the timer has fired.                  *)
C39_Witness ==
    \E u \in DOMAIN sessions :
        /\ sessions[u].reserved
        /\ sessions[u].session_timeout + Sec(1) <= now

(* C40: the ids of the store change only by a connect that succeeds, which *)
(* adds the id it was called with, and by a run of clean_sessions_tmr,     *)
(* which only removes ids; notify, reserve with its resolve_dangers and    *)
(* the state callback leave the ids as they are, for ids that are not in   *)
(* the store too.                                                          *)
C40_KeysByConnectAndReaper ==
    [][/\ (NotifyStep \/ StateReserveSrvStep \/ StateReserveStep \/ StateStep)
            => DOMAIN sessions' = DOMAIN sessions
       /\ DOMAIN sessions' # DOMAIN sessions
            => \/ /\ resp'.op = "connect" /\ resp'.success
                  /\ \E u \in Ids \ DOMAIN sessions :
                        DOMAIN sessions' = DOMAIN sessions \cup {u}
               \/ /\ clean_sessions_tmr
                  /\ DOMAIN sessions' \subseteq DOMAIN sessions]_vars

(* C40, witness: a reserve call for an id that is not in the store has     *)
(* gone through its commit, and the id is not in the store.                *)
C40_Witness ==
    /\ resp.op = "reserve"
    /\ resp.success
    /\ "svea1" \notin DOMAIN sessions
    /\ DOMAIN sessions # {}

====
